---------------------------- MODULE Spec2Model ----------------------------
(***************************************************************************)
(* Model of app.py, the Streamlit "Excel data analyzer".                   *)
(*                                                                         *)
(* Every user interaction reruns the script top to bottom.  The script     *)
(* keeps three values in st.session_state: df (the dataset), pivot_df      *)
(* (the last pivot result) and pivot_config (its configuration).  The      *)
(* module models                                                           *)
(*   - the file upload section                    (app.py 23-38),          *)
(*   - the auto-summary pass over the columns     (app.py 57-209),         *)
(*   - the pivot build handler and result display (app.py 242-304),        *)
(*   - the t-test input selection                 (app.py 413-461).        *)
(*                                                                         *)
(* A dataset is a sequence of columns; a column is a record with a name,   *)
(* a pandas dtype and a sequence of cells.  Cells are integers: text       *)
(* values are interned as positive codes, booleans are 0/1, timestamps are *)
(* ticks since the epoch and NA is the missing cell (NaN / NaT / None).    *)
(***************************************************************************)
EXTENDS Integers, Sequences, FiniteSets, TLC

VARIABLES
    uploaded_file,          \* the file_uploader widget: "none" or a file name
    df,                     \* st.session_state.df: NoDF or a dataset
    upload_msg,             \* message rendered by the upload section
    widgets,                \* the keyed widgets' values and the button of this run
    col_idx,                \* position of the auto-summary loop in df.columns
    charts,                 \* what the loop rendered, one record per column
    excluded_cols_summary,  \* (col, reason) pairs (app.py 58)
    numeric_summary_list,   \* statistics records (app.py 59)
    pivot_df,               \* st.session_state.pivot_df: NoPivot or a table
    pivot_config,           \* st.session_state.pivot_config
    pivot_msg,              \* message rendered by the pivot build handler
    ttest                   \* what the t-test section rendered in this run

vars == <<uploaded_file, df, upload_msg, widgets, col_idx, charts, excluded_cols_summary,
          numeric_summary_list, pivot_df, pivot_config, pivot_msg, ttest>>

pivotVars   == <<pivot_df, pivot_config, pivot_msg>>

\* The widgets before the user touches them: nothing selected, the first
\* aggregation label, no analysis chosen, the button not pressed.
DefaultWidgets ==
    [button |-> FALSE, pivot_index |-> <<>>, pivot_cols |-> <<>>, pivot_val |-> "",
     pivot_agg |-> "Total", analysis_select |-> "---", ttest_num |-> "",
     ttest_group |-> "", ttest_groups_select |-> <<>>]

-----------------------------------------------------------------------------
(* Values *)

\* A missing cell (NaN, NaT, None).
NA == -1

\* The index label of the synthetic bucket, 'その他' (app.py 141).
OTHERS_LABEL == -2

\* st.session_state.df = None (app.py 21, 36)
NoDF == <<>>

\* st.session_state.pivot_df = None (app.py 17, 283)
NoPivot == [none |-> TRUE, index |-> {}, columns |-> {}, cells |-> <<>>]

\* The t-test section rendered nothing.
NoTtest == [ran |-> FALSE, msg |-> "", group1_val |-> NA, group2_val |-> NA,
            group1_data |-> <<>>, group2_data |-> <<>>]

\* st.session_state.pivot_config = {} (app.py 19)
EmptyConfig == [index |-> <<>>, columns |-> <<>>, values |-> "", agg_label |-> ""]

Range(s) == {s[i] : i \in DOMAIN s}

Min(S) == CHOOSE x \in S : \A y \in S : x <= y
Max(S) == CHOOSE x \in S : \A y \in S : x >= y

RECURSIVE SumSeq(_)
SumSeq(s) == IF s = <<>> THEN 0 ELSE Head(s) + SumSeq(Tail(s))

RECURSIVE Repeat(_, _)
Repeat(v, k) == IF k <= 0 THEN <<>> ELSE <<v>> \o Repeat(v, k - 1)

\* Series.dropna(): the non-missing cells, in order.
dropna(cells) == SelectSeq(cells, LAMBDA c : c # NA)

-----------------------------------------------------------------------------
(* pandas dtype predicates used by the column dispatch (app.py 75, 106, 189) *)

DTypes == {"int64", "float64", "bool", "object", "string",
           "datetime64[ns]", "datetime64[ns, UTC]", "timedelta64[ns]", "category"}

\* pd.api.types.is_numeric_dtype: integers, floats and booleans.
is_numeric_dtype(dtype) == dtype \in {"int64", "float64", "bool"}

\* pd.api.types.is_string_dtype: object columns and the string extension dtype.
is_string_dtype(dtype) == dtype \in {"object", "string"}

\* pd.api.types.is_object_dtype
is_object_dtype(dtype) == dtype = "object"

\* pd.api.types.is_datetime64_any_dtype: naive and tz-aware datetime64.
is_datetime64_any_dtype(dtype) == dtype \in {"datetime64[ns]", "datetime64[ns, UTC]"}

\* The if/elif chain of the column loop, in the order the code tests.
\* Variant testing is_datetime64_dtype, which tz-aware columns fail:
ClassifyColumnNaiveDatetimeOnly(dtype) ==
    IF is_numeric_dtype(dtype) THEN "numeric"
    ELSE IF is_string_dtype(dtype) \/ is_object_dtype(dtype) THEN "categorical"
    ELSE IF dtype = "datetime64[ns]" THEN "temporal"
    ELSE "unrecognized"
\* The chain as written:
ClassifyColumn(dtype) ==
    IF is_numeric_dtype(dtype) THEN "numeric"
    ELSE IF is_string_dtype(dtype) \/ is_object_dtype(dtype) THEN "categorical"
    ELSE IF is_datetime64_any_dtype(dtype) THEN "temporal"
    ELSE "unrecognized"

-----------------------------------------------------------------------------
(* Series helpers *)

\* The distinct non-missing values of a column.
Uniques(cells) == Range(cells) \ {NA}

\* Series.nunique(): the number of distinct non-missing values.
nunique(cells) == Cardinality(Uniques(cells))

CountOf(cells, v) == Cardinality({i \in DOMAIN cells : cells[i] = v})

FirstIndex(cells, v) == Min({i \in DOMAIN cells : cells[i] = v})

\* Sorts the labels S by descending count; equal counts keep the order of
\* first appearance in the column.
RECURSIVE SortDescending(_, _, _)
SortDescending(S, cnt, first) ==
    IF S = {} THEN <<>>
    ELSE LET v == CHOOSE x \in S : \A y \in S :
                      \/ cnt[x] > cnt[y]
                      \/ cnt[x] = cnt[y] /\ first[x] <= first[y]
         IN <<<<v, cnt[v]>>>> \o SortDescending(S \ {v}, cnt, first)

\* Series.value_counts(): (value, count) pairs of the non-missing values,
\* most frequent first.  The order among equal counts is an implementation
\* detail of pandas; the sum of the counts behind any position does not
\* depend on it.
value_counts(cells) ==
    LET S     == Uniques(cells)
        cnt   == [v \in S |-> CountOf(cells, v)]
        first == [v \in S |-> FirstIndex(cells, v)]
    IN SortDescending(S, cnt, first)

\* Sorts the labels S ascending.
RECURSIVE SortAscending(_, _)
SortAscending(S, cnt) ==
    IF S = {} THEN <<>>
    ELSE LET v == Min(S)
         IN <<<<v, cnt[v]>>>> \o SortAscending(S \ {v}, cnt)

\* counts.sum() of a (value, count) series.
CountsSum(counts) == SumSeq([i \in DOMAIN counts |-> counts[i][2]])

\* counts.iloc[:k] and counts.iloc[k:]
ilocHead(counts, k) == SubSeq(counts, 1, Min({k, Len(counts)}))
ilocTail(counts, k) == SubSeq(counts, Min({k, Len(counts)}) + 1, Len(counts))


-----------------------------------------------------------------------------
(* 1. The auto-summary pass (app.py 57-209) *)

\* TOP_N_FOR_OTHERS = 9 (app.py 66)
TOP_N_FOR_OTHERS == 9

\* OTHERS_THRESHOLD = 0.2 (app.py 67), kept as the fraction 1/5.  The code
\* compares the float other_count / total_count with the float 0.2; IEEE
\* division is correctly rounded, so for row counts below 2^50 the float
\* comparison agrees with the exact one, which is what is computed here.
OTHERS_THRESHOLD_NUM == 1
OTHERS_THRESHOLD_DEN == 5

\* 1 < n_unique <= 10 (app.py 113) and 10 < n_unique <= 20 (app.py 131)
PIE_MAX_UNIQUE == 10
BAR_MAX_UNIQUE == 20

\* other_count = counts.iloc[TOP_N_FOR_OTHERS:].sum() (app.py 135)
\* Variant slicing from TOP_N_FOR_OTHERS + 1:
OtherCountOffByOne(counts) == CountsSum(ilocTail(counts, TOP_N_FOR_OTHERS + 1))
\* The slice as written:
OtherCount(counts) == CountsSum(ilocTail(counts, TOP_N_FOR_OTHERS))

\* other_count > 0 and other_percentage < OTHERS_THRESHOLD (app.py 136-138)
\* Variant with <= in place of <:
UseOthersBucketInclusive(other_count, total_count) ==
    /\ other_count > 0
    /\ other_count * OTHERS_THRESHOLD_DEN <= OTHERS_THRESHOLD_NUM * total_count
\* The test as written:
UseOthersBucket(other_count, total_count) ==
    /\ other_count > 0
    /\ other_count * OTHERS_THRESHOLD_DEN < OTHERS_THRESHOLD_NUM * total_count

\* Which branch of the categorical chain a column takes (app.py 113, 131,
\* 138, 157, 179).
\* Variant with the first cut-off exclusive (n_unique < 10):
CategoricalBranchEarlyBucket(n_unique, other_count, total_count) ==
    IF 1 < n_unique /\ n_unique < PIE_MAX_UNIQUE THEN "pie"
    ELSE IF PIE_MAX_UNIQUE <= n_unique /\ n_unique <= BAR_MAX_UNIQUE
         THEN IF UseOthersBucket(other_count, total_count) THEN "pie_others" ELSE "bar"
    ELSE "excluded"
\* The chain as written:
CategoricalBranch(n_unique, other_count, total_count) ==
    IF 1 < n_unique /\ n_unique <= PIE_MAX_UNIQUE THEN "pie"
    ELSE IF PIE_MAX_UNIQUE < n_unique /\ n_unique <= BAR_MAX_UNIQUE
         THEN IF UseOthersBucket(other_count, total_count) THEN "pie_others" ELSE "bar"
    ELSE "excluded"

\* The reason recorded for an excluded categorical column (app.py 180-183).
ExclusionReason(n_unique) ==
    IF n_unique > BAR_MAX_UNIQUE THEN "too_many" ELSE "too_few"

\* The categorical branch of the loop body (app.py 106-186): the chart kind
\* and the (value, count) frame handed to the renderer.
CategoricalSummary(cells) ==
    LET n_unique     == nunique(cells)
        counts       == value_counts(cells)
        total_count  == CountsSum(counts)
        top_n_counts == ilocHead(counts, TOP_N_FOR_OTHERS)
        other_count  == OtherCount(counts)
        branch       == CategoricalBranch(n_unique, other_count, total_count)
    IN [chart |-> branch,
        data  |-> CASE branch = "pie"        -> counts
                    [] branch = "pie_others" ->
                           top_n_counts \o <<<<OTHERS_LABEL, other_count>>>>
                    [] branch = "bar"        -> counts
                    [] OTHER                 -> <<>>,
        reason |-> IF branch = "excluded" THEN ExclusionReason(n_unique) ELSE ""]

\* Ticks per calendar day: the scale of the timestamps of the model.
TicksPerDay == 3

\* Series.dt.date: the calendar date of a timestamp, NaT staying missing.
\* Variant keeping the time of day:
dt_date_identity(ts) == ts
\* The conversion as written:
dt_date(ts) == IF ts = NA THEN NA ELSE ts \div TicksPerDay

\* df[col].dt.date.value_counts().sort_index() (app.py 192)
counts_over_time(cells) ==
    LET dates == [i \in DOMAIN cells |-> dt_date(cells[i])]
        S     == Uniques(dates)
        cnt   == [d \in S |-> CountOf(dates, d)]
    IN SortAscending(S, cnt)

\* df[col].describe() for a numeric column (app.py 80-89).  A bool column is
\* described as a categorical one, has no 'mean', and is skipped by the
\* except branch (app.py 90-91).
describe(col) ==
    LET xs == dropna(col.cells)
    IN [col   |-> col.name,
        count |-> Len(xs),
        min   |-> IF xs = <<>> THEN NA ELSE Min(Range(xs)),
        max   |-> IF xs = <<>> THEN NA ELSE Max(Range(xs))]

\* The lists of one pass before its loop starts (app.py 58-59).
EmptyPass == [charts |-> <<>>, excluded |-> <<>>, numeric |-> <<>>]

\* The body of the column loop (app.py 71-209) for one column: what it
\* renders and what it appends to the two lists.  Chart rendering is
\* delegated to plotly; a rendering failure is reported as a warning and
\* changes neither list.
LoopBody(col, acc) ==
    LET kind == ClassifyColumn(col.dtype)
        cat  == CategoricalSummary(col.cells)
        rendered(chart, data) ==
            Append(acc.charts, [col |-> col.name, kind |-> kind,
                                chart |-> chart, data |-> data])
    IN CASE kind = "numeric" ->
              [charts   |-> rendered("histogram", <<>>),
               excluded |-> acc.excluded,
               numeric  |-> IF col.dtype = "bool" THEN acc.numeric
                            ELSE Append(acc.numeric, describe(col))]
         [] kind = "categorical" ->
              [charts   |-> rendered(cat.chart, cat.data),
               excluded |-> IF cat.chart = "excluded"
                            THEN Append(acc.excluded, <<col.name, cat.reason>>)
                            ELSE acc.excluded,
               numeric  |-> acc.numeric]
         [] kind = "temporal" ->
              [charts   |-> rendered("line", counts_over_time(col.cells)),
               excluded |-> acc.excluded,
               numeric  |-> acc.numeric]
         [] OTHER ->
              [charts   |-> rendered("excluded", <<>>),
               excluded |-> Append(acc.excluded, <<col.name, "unrecognized">>),
               numeric  |-> acc.numeric]

\* The whole loop over the first k columns of a dataset.
RECURSIVE RunPass(_, _)
RunPass(data, k) ==
    IF k = 0 THEN EmptyPass ELSE LoopBody(data[k], RunPass(data, k - 1))

PassRunning == df # NoDF /\ col_idx <= Len(df)
CurrentCol == df[col_idx]
\* The branch of the if/elif chain the loop body takes for the current column.
BranchTaken(kind) == PassRunning /\ ClassifyColumn(CurrentCol.dtype) = kind

\* One iteration of the loop.
StepLoop ==
    LET r == LoopBody(CurrentCol, [charts   |-> charts,
                                   excluded |-> excluded_cols_summary,
                                   numeric  |-> numeric_summary_list])
    IN /\ charts' = r.charts
       /\ excluded_cols_summary' = r.excluded
       /\ numeric_summary_list' = r.numeric
       /\ col_idx' = col_idx + 1
       /\ UNCHANGED <<uploaded_file, df, upload_msg, widgets, pivotVars, ttest>>

\* Loop iteration, numeric branch (app.py 75-103).
SummarizeNumeric == BranchTaken("numeric") /\ StepLoop

\* Loop iteration, categorical branch (app.py 106-186).
SummarizeCategorical == BranchTaken("categorical") /\ StepLoop

\* Loop iteration, datetime branch (app.py 189-204).
SummarizeDatetime == BranchTaken("temporal") /\ StepLoop

\* Loop iteration, any other dtype (app.py 207-209).
SummarizeOther == BranchTaken("unrecognized") /\ StepLoop

(* Datasets of the summary pass *)

\* Largest number of distinct values of a generated categorical column.
MaxDistinct == 22
\* Largest multiplicity factor of the most frequent value.
MaxHeavy == 6

\* A categorical column with the values 1..n: value 1 occurs g times, value n
\* (the last to appear) occurs h * w times, every other value once; m cells
\* are missing.
CatCells(n, g, h, w, m) ==
    IF n = 0 THEN Repeat(NA, m + 1)
    ELSE Repeat(1, g - 1) \o [i \in 1..n |-> i] \o Repeat(NA, m) \o Repeat(n, h * w - 1)

CategoricalColumns ==
    { [name |-> "answer", dtype |-> t, cells |-> CatCells(n, g, h, w, m)] :
        t \in {"object"}, n \in 0..MaxDistinct, g \in 1..2, h \in 1..MaxHeavy,
        w \in {1, 8}, m \in 0..1 }

\* Largest timestamp of a generated datetime column.
MaxTick == 6

TemporalColumns ==
    { [name |-> "when", dtype |-> t, cells |-> <<a, b, c>>] :
        t \in {"datetime64[ns]"}, a \in 0..MaxTick, b \in (0..MaxTick) \cup {NA},
        c \in (0..MaxTick) \cup {NA} }

\* One plain column per dtype.
PlainColumns ==
    { [name |-> "plain", dtype |-> t,
       cells |-> IF t = "bool" THEN <<1, 0, 1>> ELSE <<3, NA, 1>>] : t \in DTypes }

SummaryDatasets ==
    LET probes == CategoricalColumns \cup TemporalColumns
    IN  {<<c>> : c \in probes \cup PlainColumns}
        \cup {<<p, c>> : p \in {q \in PlainColumns : q.dtype \in {"bool", "string"}},
                         c \in TemporalColumns}
        \cup {<<c, p>> : c \in CategoricalColumns,
                         p \in {q \in PlainColumns : q.dtype \in {"int64", "category"}}}

InitSummary ==
    /\ uploaded_file = "survey.xlsx"
    /\ df \in SummaryDatasets
    /\ upload_msg = "success"
    /\ col_idx = 1
    /\ charts = <<>>
    /\ excluded_cols_summary = <<>>
    /\ numeric_summary_list = <<>>
    /\ pivot_df = NoPivot
    /\ pivot_config = EmptyConfig
    /\ pivot_msg = ""
    /\ ttest = NoTtest
    /\ widgets = DefaultWidgets

NextSummary ==
    \/ SummarizeNumeric
    \/ SummarizeCategorical
    \/ SummarizeDatetime
    \/ SummarizeOther

SpecSummary == InitSummary /\ [][NextSummary]_vars

(* Claims about the auto-summary pass, checked under SpecSummary *)

\* The columns the loop has gone through so far.
Processed == 1..Len(charts)
ProcessedOfKind(k) == {i \in Processed : charts[i].kind = k}

\* The number of non-missing rows of a column, counted row by row.
NonMissingRows(cells) == Cardinality({j \in DOMAIN cells : cells[j] # NA})

\* The (value, count) pairs of a column, as a set.
ValueCountPairs(cells) == {<<v, CountOf(cells, v)>> : v \in Uniques(cells)}

\* The sum of the k largest counts among the values S.
RECURSIVE LargestCountsSum(_, _, _)
LargestCountsSum(S, cells, k) ==
    IF k = 0 \/ S = {} THEN 0
    ELSE LET v == CHOOSE x \in S : \A y \in S : CountOf(cells, x) >= CountOf(cells, y)
         IN CountOf(cells, v) + LargestCountsSum(S \ {v}, cells, k - 1)

\* The rows whose value is outside the 9 most frequent values.
RowsOutsideTop9(cells) ==
    NonMissingRows(cells) - LargestCountsSum(Uniques(cells), cells, 9)

\* C1: for every categorical column the outcome is chosen from n, the number
\* of distinct non-missing values: n <= 1 is excluded as having too few
\* values, 2..10 is a pie over all (value, count) pairs with no bucketing,
\* 11..20 is a bucketed pie or a bar, and n > 20 is excluded as having too
\* many values.
C1_OutcomeByCardinality ==
    \A i \in ProcessedOfKind("categorical") :
        LET cells == df[i].cells
            n     == Cardinality(Uniques(cells))
            c     == charts[i]
        IN /\ n <= 1 => /\ c.chart = "excluded"
                        /\ <<df[i].name, "too_few">> \in Range(excluded_cols_summary)
           /\ (2 <= n /\ n <= 10) =>
                  /\ c.chart = "pie"
                  /\ Len(c.data) = n
                  /\ Range(c.data) = ValueCountPairs(cells)
           /\ (11 <= n /\ n <= 20) => c.chart \in {"pie_others", "bar"}
           /\ n > 20 => /\ c.chart = "excluded"
                        /\ <<df[i].name, "too_many">> \in Range(excluded_cols_summary)

\* C1 witness: columns at the four boundaries n = 10, 11, 20 and 21 exist
\* among the processed ones; here the one with exactly 10 values drawn as a pie.
C1_Witness ==
    \E i \in ProcessedOfKind("categorical") :
        /\ nunique(df[i].cells) = 10
        /\ charts[i].chart = "pie"
        /\ Len(df[i].cells) > 10

\* C2: for a categorical column with 11 <= n <= 20 the outcome is the
\* bucketed pie (the 9 most frequent values plus one 'other' bucket) exactly
\* when otherCount > 0 and otherCount / total < 0.20, and a bar over all
\* counts otherwise; a ratio of exactly 0.20 gives the bar.
C2_BucketOrBar ==
    \A i \in ProcessedOfKind("categorical") :
        LET cells == df[i].cells
            n     == Cardinality(Uniques(cells))
            total == NonMissingRows(cells)
            other == RowsOutsideTop9(cells)
            c     == charts[i]
        IN (11 <= n /\ n <= 20) =>
              IF other > 0 /\ 5 * other < total
              THEN /\ c.chart = "pie_others"
                   /\ Len(c.data) = 10
                   /\ c.data[10] = <<OTHERS_LABEL, other>>
                   /\ \A k \in 1..9 :
                        /\ c.data[k] \in ValueCountPairs(cells)
                        /\ \A l \in 1..9 : l # k => c.data[l][1] # c.data[k][1]
                        /\ \A v \in Uniques(cells) \ {c.data[l][1] : l \in 1..9} :
                               CountOf(cells, v) <= c.data[k][2]
              ELSE /\ c.chart = "bar"
                   /\ Len(c.data) = n
                   /\ Range(c.data) = ValueCountPairs(cells)

\* C2 witness: a column whose 'other' rows are exactly one fifth of its rows
\* has been drawn as a bar.
C2_Witness ==
    \E i \in ProcessedOfKind("categorical") :
        /\ nunique(df[i].cells) \in 11..20
        /\ 5 * RowsOutsideTop9(df[i].cells) = NonMissingRows(df[i].cells)
        /\ charts[i].chart = "bar"

\* C3: the bucket counts of every bucketed breakdown, 'other' included, add
\* up to the number of non-missing values of the column.
C3_BucketsSumToTotal ==
    \A i \in Processed :
        charts[i].chart = "pie_others" =>
            CountsSum(charts[i].data) = NonMissingRows(df[i].cells)

\* C3 witness: a bucketed breakdown of a column with missing cells and with
\* more than one row behind the 'other' bucket.
C3_Witness ==
    \E i \in Processed :
        /\ charts[i].chart = "pie_others"
        /\ NA \in Range(df[i].cells)
        /\ charts[i].data[Len(charts[i].data)][2] > 1

\* The classification the specification states, in its priority order.
KindByPriority(dtype) ==
    IF is_numeric_dtype(dtype) THEN "numeric"
    ELSE IF is_datetime64_any_dtype(dtype) THEN "temporal"
    ELSE IF is_string_dtype(dtype) \/ is_object_dtype(dtype) THEN "categorical"
    ELSE "unrecognized"

\* C4: the classifier is total and follows the priority numeric, temporal,
\* categorical, unrecognized: every column gone through has exactly one
\* kind, a column of an unknown storage type is unrecognized and recorded as
\* excluded, and the pass can always take its next column.
C4_ClassifierTotal ==
    /\ Len(charts) = col_idx - 1
    /\ \A i \in Processed :
          /\ charts[i].col = df[i].name
          /\ charts[i].kind = KindByPriority(df[i].dtype)
          /\ charts[i].kind = "unrecognized" =>
                 /\ charts[i].chart = "excluded"
                 /\ <<df[i].name, "unrecognized">> \in Range(excluded_cols_summary)
    /\ PassRunning =>
          \E k \in {"numeric", "categorical", "temporal", "unrecognized"} : BranchTaken(k)

\* C4 witness: a pass over two columns has ended, the second one of an
\* unknown storage type and recorded as excluded.
C4_Witness ==
    /\ Len(df) = 2
    /\ col_idx = 3
    /\ df[2].dtype = "category"
    /\ charts[2].kind = "unrecognized"
    /\ charts[1].kind = "categorical"

\* C8: the temporal aggregation holds exactly one (date, count) pair per
\* distinct calendar date occurring in the column, in strictly ascending
\* date order, the count being the number of non-missing rows on that date.
C8_TemporalAggregation ==
    \A i \in ProcessedOfKind("temporal") :
        LET cells == df[i].cells
            rows  == {j \in DOMAIN cells : cells[j] # NA}
            day(j) == cells[j] \div TicksPerDay
            data  == charts[i].data
        IN /\ {data[k][1] : k \in DOMAIN data} = {day(j) : j \in rows}
           /\ \A k \in DOMAIN data :
                 data[k][2] = Cardinality({j \in rows : day(j) = data[k][1]})
           /\ \A k \in 1..(Len(data) - 1) : data[k][1] < data[k + 1][1]

\* C8 witness: two timestamps at different times of one day and a third two
\* days later give (day, 2), (day + 2, 1), with no pair for the day between.
C8_Witness ==
    \E i \in ProcessedOfKind("temporal") :
        /\ df[i].cells[1] # df[i].cells[2]
        /\ df[i].cells[3] # NA
        /\ charts[i].data = <<<<0, 2>>, <<2, 1>>>>

-----------------------------------------------------------------------------
(* 2. The pivot table section (app.py 242-304) *)

\* df.columns.tolist()
Columns(data) == [i \in DOMAIN data |-> data[i].name]

\* df[name]
Column(data, name) == data[CHOOSE i \in DOMAIN data : data[i].name = name]

\* len(df)
NRows(data) == IF data = <<>> THEN 0 ELSE Len(data[1].cells)

\* df.select_dtypes(include=['number']).columns: integer and float columns;
\* bool is not a number dtype for select_dtypes (app.py 249, 360).
numeric_cols(data) ==
    SelectSeq(Columns(data), LAMBDA c : Column(data, c).dtype \in {"int64", "float64"})

\* df.select_dtypes(exclude=['number']).columns (app.py 361)
categorical_cols(data) ==
    SelectSeq(Columns(data), LAMBDA c : Column(data, c).dtype \notin {"int64", "float64"})

\* agg_func_options (app.py 260): the labels of the select box and the
\* aggregation each stands for ("Total" for the label 合計, "Average" for
\* 平均, "Count" for カウント, "Median" for 中央値).
agg_func_options ==
    [l \in {"Total", "Average", "Count", "Median"} |->
        CASE l = "Total" -> "sum" [] l = "Average" -> "mean"
          [] l = "Count" -> "count" [] OTHER -> "median"]

\* Aggregated cells are fractions <<numerator, denominator>>; NaN is 0/0.
NaN == <<0, 0>>
\* fill_value=0 (app.py 275)
fill_value == <<0, 1>>

\* The values of a bag of numbers given as a function from a finite set of
\* rows: their sum.
RECURSIVE SumOver(_, _)
SumOver(J, f) ==
    IF J = {} THEN 0
    ELSE LET j == CHOOSE x \in J : TRUE IN f[j] + SumOver(J \ {j}, f)

\* The k-th smallest value (1-based) of the values f[j], j in J.
RECURSIVE KthSmallest(_, _, _)
KthSmallest(J, f, k) ==
    LET j == CHOOSE x \in J : \A y \in J : f[x] <= f[y]
    IN IF k = 1 THEN f[j] ELSE KthSmallest(J \ {j}, f, k - 1)

\* A groupby aggregation of pandas over the rows J of a group: missing
\* values are skipped; the mean and the median of no value are NaN, the sum
\* and the count of no value are 0.
\* Variant whose count is the number of rows (len):
AggregateCountingRows(aggfunc, J, f) ==
    LET K == {j \in J : f[j] # NA}
        n == Cardinality(K)
    IN CASE aggfunc = "sum"   -> <<SumOver(K, f), 1>>
         [] aggfunc = "count" -> <<Cardinality(J), 1>>
         [] aggfunc = "mean"  -> IF n = 0 THEN NaN ELSE <<SumOver(K, f), n>>
         [] OTHER -> IF n = 0 THEN NaN
                     ELSE IF n % 2 = 1 THEN <<KthSmallest(K, f, (n + 1) \div 2), 1>>
                     ELSE <<KthSmallest(K, f, n \div 2) + KthSmallest(K, f, n \div 2 + 1), 2>>
\* The aggregation as pandas performs it:
Aggregate(aggfunc, J, f) ==
    LET K == {j \in J : f[j] # NA}
        n == Cardinality(K)
    IN CASE aggfunc = "sum"   -> <<SumOver(K, f), 1>>
         [] aggfunc = "count" -> <<n, 1>>
         [] aggfunc = "mean"  -> IF n = 0 THEN NaN ELSE <<SumOver(K, f), n>>
         [] OTHER -> IF n = 0 THEN NaN
                     ELSE IF n % 2 = 1 THEN <<KthSmallest(K, f, (n + 1) \div 2), 1>>
                     ELSE <<KthSmallest(K, f, n \div 2) + KthSmallest(K, f, n \div 2 + 1), 2>>

HasDuplicates(s) == \E i, j \in DOMAIN s : i < j /\ s[i] = s[j]

\* pd.pivot_table restricts the frame to the labels keys + [values] when
\* these are fewer than the frame's columns; a label named twice then gives
\* a frame with two columns of one name, and groupby raises ValueError
\* ("Grouper for ... not 1-dimensional").  The selections of this model
\* always name fewer labels than the dataset has columns.
pivot_table_raises(data, index, columns, values) ==
    LET to_filter == index \o columns \o <<values>>
    IN Len(to_filter) < Len(data) /\ HasDuplicates(to_filter)

\* pd.pivot_table(df, index, columns, values, aggfunc, fill_value=0)
\* (app.py 269-276): group the rows by the keys (rows with a missing key are
\* left out), aggregate the value column in each group, drop the groups
\* whose aggregate is NaN (dropna=True), unstack the column keys and fill
\* the combinations without a group with fill_value.
pivot_table(data, index, columns, values, aggfunc) ==
    LET keys    == index \o columns
        rows    == {j \in 1..NRows(data) :
                      \A k \in DOMAIN keys : Column(data, keys[k]).cells[j] # NA}
        KeyOf(j) == [k \in DOMAIN keys |-> Column(data, keys[k]).cells[j]]
        groups  == {KeyOf(j) : j \in rows}
        f       == Column(data, values).cells
        agg(g)  == Aggregate(aggfunc, {j \in rows : KeyOf(j) = g}, f)
        kept    == {g \in groups : agg(g) # NaN}
        R       == {SubSeq(g, 1, Len(index)) : g \in kept}
        C       == {SubSeq(g, Len(index) + 1, Len(keys)) : g \in kept}
    IN [none    |-> FALSE,
        index   |-> R,
        columns |-> C,
        cells   |-> [rc \in R \X C |->
                        IF rc[1] \o rc[2] \in kept THEN agg(rc[1] \o rc[2])
                        ELSE fill_value]]

\* The handler of the create button (app.py 266-285) for the widget values
\* w on the dataset data: the new pivot_df, pivot_config and message.
\* Variant whose except branch leaves pivot_df as it was:
PivotHandlerKeepOnError(data, w, old_df, old_config) ==
    IF w.pivot_index # <<>> /\ w.pivot_val # ""
    THEN IF pivot_table_raises(data, w.pivot_index, w.pivot_cols, w.pivot_val)
         THEN [pivot_df |-> old_df, pivot_config |-> old_config, msg |-> "error"]
         ELSE [pivot_df |-> pivot_table(data, w.pivot_index, w.pivot_cols, w.pivot_val,
                                        agg_func_options[w.pivot_agg]),
               pivot_config |-> [index |-> w.pivot_index, columns |-> w.pivot_cols,
                                 values |-> w.pivot_val, agg_label |-> w.pivot_agg],
               msg |-> ""]
    ELSE [pivot_df |-> old_df, pivot_config |-> old_config, msg |-> "warning"]
\* Variant whose success branch stores the result without its configuration:
PivotHandlerResultOnly(data, w, old_df, old_config) ==
    IF w.pivot_index # <<>> /\ w.pivot_val # ""
    THEN IF pivot_table_raises(data, w.pivot_index, w.pivot_cols, w.pivot_val)
         THEN [pivot_df |-> NoPivot, pivot_config |-> old_config, msg |-> "error"]
         ELSE [pivot_df |-> pivot_table(data, w.pivot_index, w.pivot_cols, w.pivot_val,
                                        agg_func_options[w.pivot_agg]),
               pivot_config |-> old_config,
               msg |-> ""]
    ELSE [pivot_df |-> old_df, pivot_config |-> old_config, msg |-> "warning"]
\* The handler as written:
PivotHandler(data, w, old_df, old_config) ==
    IF w.pivot_index # <<>> /\ w.pivot_val # ""
    THEN IF pivot_table_raises(data, w.pivot_index, w.pivot_cols, w.pivot_val)
         THEN [pivot_df |-> NoPivot, pivot_config |-> old_config, msg |-> "error"]
         ELSE [pivot_df |-> pivot_table(data, w.pivot_index, w.pivot_cols, w.pivot_val,
                                        agg_func_options[w.pivot_agg]),
               pivot_config |-> [index |-> w.pivot_index, columns |-> w.pivot_cols,
                                 values |-> w.pivot_val, agg_label |-> w.pivot_agg],
               msg |-> ""]
    ELSE [pivot_df |-> old_df, pivot_config |-> old_config, msg |-> "warning"]

\* The result column of the pivot section (app.py 287-290, 300): the stored
\* result is shown whenever the main part of the page is rendered and a
\* result is stored.
PivotShown == df # NoDF /\ ~pivot_df.none

-----------------------------------------------------------------------------
(* 3. The t-test section (app.py 413-461) *)

\* Series.unique() of the non-missing cells: the values in order of first
\* appearance.
RECURSIVE unique(_)
unique(cells) ==
    IF cells = <<>> THEN <<>>
    ELSE LET v    == cells[Len(cells)]
             rest == unique(SubSeq(cells, 1, Len(cells) - 1))
         IN IF v = NA \/ v \in Range(rest) THEN rest ELSE Append(rest, v)

\* Python truth value of a group value: None (here NA), False, 0 and the
\* empty string (all encoded 0) are false, everything else is true.
Truthy(v) == v # NA /\ v # 0

\* df[df[group_var] == g][numeric_var].dropna() (app.py 442-443)
GroupData(data, group_var, g, numeric_var) ==
    LET gs == Column(data, group_var).cells
        xs == Column(data, numeric_var).cells
        pick[j \in 0..Len(gs)] ==
            IF j = 0 THEN <<>>
            ELSE IF gs[j] = g /\ xs[j] # NA THEN Append(pick[j - 1], xs[j])
            ELSE pick[j - 1]
    IN pick[Len(gs)]

\* The t-test branch of the statistics section for the widget values w.
TtestSection(data, w) ==
    IF w.analysis_select # "t-test" THEN NoTtest
    ELSE
    LET numeric_var   == w.ttest_num
        group_var     == w.ttest_group
        unique_groups == IF group_var = "" THEN <<>>
                         ELSE unique(Column(data, group_var).cells)
        selected      == w.ttest_groups_select
        two           == Len(unique_groups) = 2
        group1_val    == IF group_var = "" THEN NA
                         ELSE IF two THEN unique_groups[1]
                         ELSE IF Len(selected) = 2 THEN selected[1] ELSE NA
        group2_val    == IF group_var = "" THEN NA
                         ELSE IF two THEN unique_groups[2]
                         ELSE IF Len(selected) = 2 THEN selected[2] ELSE NA
        run           == /\ numeric_var # ""
                         /\ group_var # ""
                         /\ Truthy(group1_val)
                         /\ Truthy(group2_val)
    IN [ran |-> run,
        msg |-> IF group_var = "" THEN "" ELSE IF two THEN "success" ELSE "warning",
        group1_val  |-> group1_val,
        group2_val  |-> group2_val,
        group1_data |-> IF run THEN GroupData(data, group_var, group1_val, numeric_var)
                        ELSE <<>>,
        group2_data |-> IF run THEN GroupData(data, group_var, group2_val, numeric_var)
                        ELSE <<>>]

-----------------------------------------------------------------------------
(* 4. One run of the script *)

\* The workbooks a user can upload: pd.read_excel (app.py 29) returns the
\* dataset of a readable one and raises on a corrupt one.
PivotData(rows) ==
    <<[name |-> "col0", dtype |-> "object",  cells |-> [i \in DOMAIN rows |-> rows[i][1]]],
      [name |-> "col1", dtype |-> "int64",   cells |-> [i \in DOMAIN rows |-> rows[i][2]]],
      [name |-> "col2", dtype |-> "float64", cells |-> [i \in DOMAIN rows |-> rows[i][3]]],
      [name |-> "note", dtype |-> "object",  cells |-> [i \in DOMAIN rows |-> i]],
      [name |-> "region", dtype |-> "object", cells |-> [i \in DOMAIN rows |-> 1]]>>

Files == {"sales.xlsx", "sales_q2.xlsx", "corrupt.xlsx"}

read_excel_raises(file) == file = "corrupt.xlsx"

\* sales.xlsx holds the rows (A,1,10), (A,2,20), (B,1,5), with A = 1, B = 2.
read_excel(file) ==
    IF file = "sales.xlsx" THEN PivotData(<<<<1, 1, 10>>, <<1, 2, 20>>, <<2, 1, 5>>>>)
    ELSE PivotData(<<<<1, 1, 7>>, <<2, 2, NA>>, <<2, 1, 3>>, <<2, 2, NA>>>>)

\* The file upload section (app.py 26-38): the dataset kept in the session
\* after it and the message it renders.
UploadSection(file, old_df) ==
    IF file = "none" THEN [df |-> old_df, msg |-> "info"]
    ELSE IF read_excel_raises(file) THEN [df |-> NoDF, msg |-> "error"]
    ELSE [df |-> read_excel(file), msg |-> "success"]

\* One run of the script with the uploader holding `file` and the widgets
\* holding w: the upload section, then, if a dataset is held, the
\* auto-summary pass, the pivot section and the statistics section.
ScriptRun(file, w) ==
    LET up     == UploadSection(file, df)
        pass   == RunPass(up.df, Len(up.df))
        pivot  == IF up.df # NoDF /\ w.button
                  THEN PivotHandler(up.df, w, pivot_df, pivot_config)
                  ELSE [pivot_df |-> pivot_df, pivot_config |-> pivot_config, msg |-> ""]
    IN /\ uploaded_file' = file
       /\ widgets' = w
       /\ df' = up.df
       /\ upload_msg' = up.msg
       /\ col_idx' = Len(up.df) + 1
       /\ charts' = pass.charts
       /\ excluded_cols_summary' = pass.excluded
       /\ numeric_summary_list' = pass.numeric
       /\ pivot_df' = pivot.pivot_df
       /\ pivot_config' = pivot.pivot_config
       /\ pivot_msg' = pivot.msg
       /\ ttest' = IF up.df # NoDF THEN TtestSection(up.df, w) ELSE NoTtest

\* The user picks a file in the uploader.
UploadFile(f) ==
    /\ f \in Files
    /\ ScriptRun(f, [widgets EXCEPT !.button = FALSE])

\* The user removes the file from the uploader.
RemoveFile ==
    /\ uploaded_file # "none"
    /\ ScriptRun("none", [widgets EXCEPT !.button = FALSE])

\* The selections the pivot widgets offer on a dataset: rows and columns
\* among the column names, the value among the numeric columns or none.
PivotIndexChoices == {<<>>, <<"col0">>, <<"col0", "col1">>}
PivotColsChoices  == {<<>>, <<"col1">>}
PivotValChoices(data) == Range(numeric_cols(data)) \cup {""}

\* The user sets the pivot widgets and presses the create button (the
\* button is rendered only while a dataset is held).
ClickCreatePivot(index_cols, column_cols, value_col, agg_func_label) ==
    /\ df # NoDF
    /\ Range(index_cols) \cup Range(column_cols) \subseteq Range(Columns(df))
    /\ value_col \in PivotValChoices(df)
    /\ ScriptRun(uploaded_file,
                 [widgets EXCEPT !.button = TRUE, !.pivot_index = index_cols,
                                 !.pivot_cols = column_cols, !.pivot_val = value_col,
                                 !.pivot_agg = agg_func_label])

\* The user changes a widget that stores nothing (the chart type, an
\* expander): the script reruns with the button released.
Rerun ==
    /\ widgets.button
    /\ ScriptRun(uploaded_file, [widgets EXCEPT !.button = FALSE])

\* The user chooses the t-test and sets its widgets: the numeric column, the
\* grouping column and, when the multiselect is rendered, the groups.
SelectTtest(numeric_var, group_var, selected_groups) ==
    /\ df # NoDF
    /\ numeric_var \in Range(numeric_cols(df)) \cup {""}
    /\ group_var \in Range(categorical_cols(df)) \cup {""}
    /\ LET groups == IF group_var = "" THEN <<>>
                     ELSE unique(Column(df, group_var).cells)
       IN IF Len(groups) = 2 \/ group_var = "" THEN selected_groups = <<>>
          ELSE /\ Range(selected_groups) \subseteq Range(groups)
               /\ ~HasDuplicates(selected_groups)
    /\ ScriptRun(uploaded_file,
                 [widgets EXCEPT !.button = FALSE, !.analysis_select = "t-test",
                                 !.ttest_num = numeric_var, !.ttest_group = group_var,
                                 !.ttest_groups_select = selected_groups])

(* The session: uploads and pivot builds *)

Init ==
    /\ uploaded_file = "none"
    /\ df = NoDF
    /\ upload_msg = "info"
    /\ widgets = DefaultWidgets
    /\ col_idx = 1
    /\ charts = <<>>
    /\ excluded_cols_summary = <<>>
    /\ numeric_summary_list = <<>>
    /\ pivot_df = NoPivot
    /\ pivot_config = EmptyConfig
    /\ pivot_msg = ""
    /\ ttest = NoTtest

Next ==
    \/ \E f \in Files : UploadFile(f)
    \/ RemoveFile
    \/ \E i \in PivotIndexChoices, c \in PivotColsChoices,
          v \in {"", "col2"}, a \in {"Total", "Count"} :
            ClickCreatePivot(i, c, v, a)
    \/ Rerun

Spec == Init /\ [][Next]_vars

(* Sequences of at most k distinct elements of S. *)
RECURSIVE DistinctSeqs(_, _)
DistinctSeqs(S, k) ==
    IF k = 0 THEN {<<>>}
    ELSE LET shorter == DistinctSeqs(S, k - 1)
         IN shorter \cup UNION {{Append(q, x) : x \in S \ Range(q)} : q \in shorter}

RECURSIVE SeqsUpTo(_, _)
SeqsUpTo(S, k) ==
    IF k = 0 THEN {<<>>}
    ELSE LET shorter == SeqsUpTo(S, k - 1)
         IN shorter \cup {Append(q, x) : q \in shorter, x \in S}

\* The state at the end of the run that follows loading `data` and removing
\* the file from the uploader: the dataset stays in the session.
Loaded(data) ==
    /\ uploaded_file = "none"
    /\ df = data
    /\ upload_msg = "info"
    /\ widgets = DefaultWidgets
    /\ col_idx = Len(data) + 1
    /\ charts = RunPass(data, Len(data)).charts
    /\ excluded_cols_summary = RunPass(data, Len(data)).excluded
    /\ numeric_summary_list = RunPass(data, Len(data)).numeric
    /\ pivot_df = NoPivot
    /\ pivot_config = EmptyConfig
    /\ pivot_msg = ""
    /\ ttest = NoTtest

(* The first pivot build on a loaded dataset *)

\* Largest number of rows of a generated pivot dataset.
MaxPivotRows == 3

\* Rows (col0, col1, col2): (A,1,10), (A,2,20), (B,1,5), a row without a
\* value and a row without a key.
PivotRowDomain ==
    {<<1, 1, 10>>, <<1, 2, 20>>, <<2, 1, 5>>, <<2, 2, NA>>, <<NA, 1, 10>>}

PivotDatasets == {PivotData(rows) : rows \in SeqsUpTo(PivotRowDomain, MaxPivotRows) \ {<<>>}}

InitPivot == \E data \in PivotDatasets : Loaded(data)

NextPivot ==
    \E i \in PivotIndexChoices, c \in PivotColsChoices,
       v \in {"", "col1", "col2"}, a \in DOMAIN agg_func_options :
        ~widgets.button /\ ClickCreatePivot(i, c, v, a)

SpecPivot == InitPivot /\ [][NextPivot]_vars

(* The t-test section on a loaded dataset *)

\* Largest number of rows of a generated t-test dataset.
MaxTtestRows == 3
\* Largest number of groups picked in the multiselect.
MaxSelected == 3

\* Rows (score, group, flag): a score or none, a text group, a boolean flag.
TtestRowDomain ==
    {<<x, g[1], g[2]>> : x \in {NA, 5}, g \in {<<1, 1>>, <<2, 0>>, <<3, 1>>, <<2, 1>>}}

TtestData(rows) ==
    <<[name |-> "score", dtype |-> "float64", cells |-> [i \in DOMAIN rows |-> rows[i][1]]],
      [name |-> "group", dtype |-> "object",  cells |-> [i \in DOMAIN rows |-> rows[i][2]]],
      [name |-> "flag",  dtype |-> "bool",    cells |-> [i \in DOMAIN rows |-> rows[i][3]]]>>

TtestDatasets == {TtestData(rows) : rows \in SeqsUpTo(TtestRowDomain, MaxTtestRows) \ {<<>>}}

InitTtest == \E data \in TtestDatasets : Loaded(data)

NextTtest ==
    \E n \in {"", "score"}, g \in {"", "group", "flag"},
       sel \in DistinctSeqs(0..3, MaxSelected) :
        widgets.analysis_select = "---" /\ SelectTtest(n, g, sel)

SpecTtest == InitTtest /\ [][NextTtest]_vars

-----------------------------------------------------------------------------
(* Claims about the session, checked under Spec *)

\* The run in progress was started by the create button with a required
\* selection missing.
RejectedRequest == widgets.button /\ (widgets.pivot_index = <<>> \/ widgets.pivot_val = "")

\* C5: after a build request with a missing required selection no pivot
\* result is shown, whatever builds preceded it.
C5_NoResultAfterRejectedRequest ==
    RejectedRequest => /\ pivot_msg = "warning"
                       /\ ~PivotShown

\* C6: a pivot result that is held was computed from the dataset now held,
\* under the stored configuration; after the dataset is replaced or cleared
\* no result of the previous dataset is held.
C6_PivotFromCurrentDataset ==
    ~pivot_df.none =>
        /\ df # NoDF
        /\ pivot_df = pivot_table(df, pivot_config.index, pivot_config.columns,
                                  pivot_config.values,
                                  agg_func_options[pivot_config.agg_label])

\* The widgets w ask for a build the aggregation can perform on data.
ValidRequest(data, w) ==
    /\ w.button
    /\ w.pivot_index # <<>>
    /\ w.pivot_val # ""
    /\ ~pivot_table_raises(data, w.pivot_index, w.pivot_cols, w.pivot_val)

\* C9: a build the aggregation cannot perform is reported for that build
\* only: after it no result is stored or shown, the dataset is the one held
\* before, and a later valid build request runs and stores its result.
C9_FailedBuildIsScoped ==
    /\ [](pivot_msg = "error" => pivot_df.none /\ ~PivotShown /\ df # NoDF)
    /\ [][pivot_msg' = "error" => df' = df]_vars
    /\ [][(pivot_msg = "error" /\ ValidRequest(df', widgets')) =>
             /\ ~pivot_df'.none
             /\ pivot_msg' = ""
             /\ pivot_config'.index = widgets'.pivot_index
             /\ pivot_config'.values = widgets'.pivot_val]_vars

\* C9 witness: a build has just failed after an earlier build had stored a
\* result: the configuration of the earlier build is still there, its
\* result is not.
C9_Witness ==
    /\ pivot_msg = "error"
    /\ pivot_config # EmptyConfig
    /\ pivot_df.none
    /\ df # NoDF

\* The configuration a build with the widget values w stores (app.py 278-280).
SelectionOf(w) ==
    [index |-> w.pivot_index, columns |-> w.pivot_cols,
     values |-> w.pivot_val, agg_label |-> w.pivot_agg]

\* The table a build under the configuration config computes from data.
BuildUnder(data, config) ==
    pivot_table(data, config.index, config.columns, config.values,
                agg_func_options[config.agg_label])

\* The stored result is the table of a build under the stored configuration
\* on a dataset the session can hold.
StoredPairConsistent ==
    /\ pivot_config.index # <<>>
    /\ pivot_config.values # ""
    /\ \E f \in Files :
        /\ ~read_excel_raises(f)
        /\ ~pivot_table_raises(read_excel(f), pivot_config.index, pivot_config.columns,
                               pivot_config.values)
        /\ pivot_df = BuildUnder(read_excel(f), pivot_config)

\* C11: over any sequence of build requests (successful, failed, rejected),
\* whenever a result is stored the stored configuration is the selection of
\* the build that produced it: a successful build stores its table together
\* with its own selection, any other run that leaves a result stored leaves
\* the stored pair as it was, and in particular a rejected request changes
\* neither the stored result nor the stored configuration.
C11_ConfigMatchesResult ==
    /\ [](~pivot_df.none => StoredPairConsistent)
    /\ [][ValidRequest(df', widgets') =>
             /\ pivot_config' = SelectionOf(widgets')
             /\ pivot_df' = BuildUnder(df', pivot_config')]_vars
    /\ [][(~ValidRequest(df', widgets') /\ ~pivot_df'.none) =>
             /\ pivot_df' = pivot_df
             /\ pivot_config' = pivot_config]_vars
    /\ [][RejectedRequest' =>
             /\ pivot_df' = pivot_df
             /\ pivot_config' = pivot_config]_vars

\* C11 witness: a request with a required selection missing has just been
\* rejected while a result of an earlier build is stored; the widgets hold
\* a selection other than the stored configuration.
C11_Witness ==
    /\ RejectedRequest
    /\ pivot_msg = "warning"
    /\ ~pivot_df.none
    /\ pivot_config # SelectionOf(widgets)
    /\ StoredPairConsistent

(* Claims about the pivot builder, checked under SpecPivot *)

\* A build has just stored a simple grouped table (no column keys).
GroupedTableBuilt ==
    /\ widgets.button
    /\ pivot_msg = ""
    /\ ~pivot_df.none
    /\ pivot_config.columns = <<>>

\* The rows of the dataset whose row keys are all present, and the key
\* combination of a row.
KeyedRows == {j \in 1..NRows(df) :
                \A k \in DOMAIN pivot_config.index :
                    Column(df, pivot_config.index[k]).cells[j] # NA}
RowKey(j) == [k \in DOMAIN pivot_config.index |->
                 Column(df, pivot_config.index[k]).cells[j]]
GroupRows(g) == {j \in KeyedRows : RowKey(j) = g}
ValueCell(j) == Column(df, pivot_config.values).cells[j]
GroupValues(g) == {j \in GroupRows(g) : ValueCell(j) # NA}

\* The fraction cell is the aggregate `aggfunc` of the values of the rows J.
IsAggregateOf(cell, aggfunc, J) ==
    LET n == Cardinality(J)
        p == cell[1]
        q == cell[2]
        total == SumOver(J, [j \in J |-> ValueCell(j)])
    IN /\ q > 0
       /\ CASE aggfunc = "sum"   -> p = total * q
            [] aggfunc = "count" -> p = n * q
            [] aggfunc = "mean"  -> p * n = total * q
            [] OTHER ->
                 /\ 2 * Cardinality({j \in J : ValueCell(j) * q <= p}) >= n
                 /\ 2 * Cardinality({j \in J : ValueCell(j) * q >= p}) >= n

\* C7 as stated: one entry per combination of row-key values present in the
\* data, the cell being the aggregate of the value column over the rows of
\* the group, the sum its total and the count its number of rows.
C7_GroupedTableCountsRows ==
    GroupedTableBuilt =>
        LET aggfunc == agg_func_options[pivot_config.agg_label]
        IN /\ pivot_df.index = {RowKey(j) : j \in KeyedRows}
           /\ pivot_df.columns \subseteq {<<>>}
           /\ \A g \in pivot_df.index :
                 IF aggfunc = "count"
                 THEN pivot_df.cells[<<g, <<>>>>] = <<Cardinality(GroupRows(g)), 1>>
                 ELSE IsAggregateOf(pivot_df.cells[<<g, <<>>>>], aggfunc, GroupValues(g))

\* C7 as amended: one entry per combination of row-key values present in the
\* data for which the aggregate is defined (every combination for sum and
\* count, those with a non-missing value for mean and median), the cell being
\* the aggregate of the non-missing values of the value column over the rows
\* of the group: the sum their total, the count their number.
C7_GroupedTable ==
    GroupedTableBuilt =>
        LET aggfunc == agg_func_options[pivot_config.agg_label]
        IN /\ pivot_df.index =
                 {RowKey(j) : j \in {i \in KeyedRows :
                                       \/ aggfunc \in {"sum", "count"}
                                       \/ GroupValues(RowKey(i)) # {}}}
           /\ pivot_df.columns \subseteq {<<>>}
           /\ \A g \in pivot_df.index :
                 /\ IsAggregateOf(pivot_df.cells[<<g, <<>>>>], aggfunc, GroupValues(g))
                 /\ aggfunc = "sum" =>
                        pivot_df.cells[<<g, <<>>>>] =
                            <<SumOver(GroupValues(g), [j \in GroupValues(g) |-> ValueCell(j)]), 1>>
                 /\ aggfunc = "count" =>
                        pivot_df.cells[<<g, <<>>>>] = <<Cardinality(GroupValues(g)), 1>>

\* C7 witness: a count over a group of two rows, one of them without a
\* value, next to the rows (A,1,10), (A,2,20): the table is {A: 2, B: 1}.
C7_Witness ==
    /\ GroupedTableBuilt
    /\ pivot_config.index = <<"col0">>
    /\ pivot_config.values = "col2"
    /\ pivot_config.agg_label = "Count"
    /\ Cardinality(GroupRows(<<2>>)) = 2
    /\ pivot_df.index = {<<1>>, <<2>>}
    /\ pivot_df.cells[<<<<1>>, <<>>>>] = <<1, 1>>
    /\ pivot_df.cells[<<<<2>>, <<>>>>] = <<1, 1>>

(* Claims about the t-test section, checked under SpecTtest *)

\* The section has determined two group values: the column has exactly two
\* values, or the user picked exactly two.
TwoGroupsDetermined ==
    /\ widgets.ttest_group # ""
    /\ \/ Len(unique(Column(df, widgets.ttest_group).cells)) = 2
       \/ Len(widgets.ttest_groups_select) = 2

\* C10: the test is invoked only with a numeric column chosen, two distinct
\* group values determined and two non-empty samples; a wrong group count is
\* reported and the test does not run; and with a numeric column and two
\* distinct group values determined the test does run.
C10_TtestOnValidInputs ==
    widgets.analysis_select = "t-test" =>
        /\ ttest.ran =>
              /\ widgets.ttest_num \in Range(numeric_cols(df))
              /\ TwoGroupsDetermined
              /\ ttest.group1_val # ttest.group2_val
              /\ ttest.group1_data # <<>>
              /\ ttest.group2_data # <<>>
        /\ (widgets.ttest_group # "" /\ ~TwoGroupsDetermined) =>
              /\ ttest.msg = "warning"
              /\ ~ttest.ran
        /\ (widgets.ttest_num # "" /\ TwoGroupsDetermined) => ttest.ran

=============================================================================
